---- MODULE Spec2Model ----
(***************************************************************************)
(* Budget Tracker (src/app1.py): the SQLite transaction store, the         *)
(* aggregation helpers, the spreadsheet export and the upload validator.   *)
(*                                                                         *)
(* Text that the code strips, orders or matches is a sequence of code      *)
(* points; amounts are integers (whole currency units); a calendar date    *)
(* is a record [year, month, day] and its stored form is ISO-8601 text.    *)
(***************************************************************************)
EXTENDS Integers, Sequences, FiniteSets, TLC

VARIABLES
    db,          \* the rows of the transactions table (init_db, lines 91-108)
    seq,         \* the largest id ever assigned (AUTOINCREMENT, line 97)
    df,          \* the frame load_transactions returned in the last run (line 321)
    flash,       \* what the last run told the user, or the error it raised
    uploaded,    \* the file in the uploader (line 349)
    processed,   \* process_uploaded_file's result for it (line 354)
    sel_year,    \* the year filter (line 385)
    sel_month,   \* the month filter (line 386)
    summary_df,  \* the summary shown (line 390)
    cat_df,      \* the expense breakdown shown (line 420)
    sheet,       \* the workbook exported last (line 454)
    pdf          \* the PDF report offered for download in this run (line 483)

vars == <<db, seq, df, flash, uploaded, processed,
          sel_year, sel_month, summary_df, cat_df, sheet, pdf>>

\* ------------------------------------------------------------------ bounds
MaxRows == 3          \* rows the store may hold in Spec
MaxFrameRows == 2     \* rows of the stores drawn in SpecDashboard
MaxTripRows == 2      \* rows of the stores drawn in SpecRoundTrip
MaxPdfRows == 21      \* rows of the stores drawn in SpecPdf
MaxTableRows == 1     \* rows of the uploaded tables drawn in SpecValidator

\* -------------------------------------------------------------------- text
General   == <<71, 101, 110, 101, 114, 97, 108>>
Rent      == <<82, 101, 110, 116>>
Salary    == <<83, 97, 108, 97, 114, 121>>
Groceries == <<71, 114, 111, 99, 101, 114, 105, 101, 115>>
Empty     == << >>
Blank     == <<32, 32>>
Lunch     == <<108, 117, 110, 99, 104>>
Abc       == <<97, 98, 99>>
Income    == <<105, 110, 99, 111, 109, 101>>
Expense   == <<101, 120, 112, 101, 110, 115, 101>>
Transfer  == <<116, 114, 97, 110, 115, 102, 101, 114>>
PKR       == <<80, 75, 82>>
NA        == <<78, 65>>
Kiraya    == <<1705, 1585, 1575, 1740, 1729>>     \* Urdu script: not latin-1

\* pandas' missing value (NaN / None / NaT / SQL NULL) in a text cell:
\* no code point is negative
NaN == << -1 >>

IsSpace(c) == c \in {9, 10, 11, 12, 13, 32}

RECURSIVE LStrip(_)
LStrip(s) == IF s # << >> /\ IsSpace(Head(s)) THEN LStrip(Tail(s)) ELSE s

RECURSIVE RStrip(_)
RStrip(s) ==
    IF s # << >> /\ IsSpace(s[Len(s)]) THEN RStrip(SubSeq(s, 1, Len(s) - 1)) ELSE s

\* str.strip()
Strip(s) == RStrip(LStrip(s))

\* Python / SQLite BINARY ordering of text: lexicographic by code point
RECURSIVE TextLess(_, _)
TextLess(a, b) ==
    IF b = << >> THEN FALSE
    ELSE IF a = << >> THEN TRUE
    ELSE IF Head(a) # Head(b) THEN Head(a) < Head(b)
    ELSE TextLess(Tail(a), Tail(b))

\* ------------------------------------------------------------------- dates
Digit(n) == 48 + n
IsDigit(c) == c \in 48..57

\* date.isoformat(): YYYY-MM-DD
IsoFormat(d) ==
    << Digit(d.year \div 1000), Digit((d.year \div 100) % 10),
       Digit((d.year \div 10) % 10), Digit(d.year % 10), 45,
       Digit(d.month \div 10), Digit(d.month % 10), 45,
       Digit(d.day \div 10), Digit(d.day % 10) >>

DaysIn(y, m) ==
    IF m \in {4, 6, 9, 11} THEN 30
    ELSE IF m = 2 THEN (IF y % 4 = 0 /\ (y % 100 # 0 \/ y % 400 = 0) THEN 29 ELSE 28)
    ELSE 31

\* The ISO-8601 reading of a text as a calendar date (the only text form of
\* a date the model feeds to pd.to_datetime); ok = FALSE when it is none.
ParseIso(t) ==
    IF Len(t) = 10 /\ t[5] = 45 /\ t[8] = 45
       /\ \A i \in {1, 2, 3, 4, 6, 7, 9, 10} : IsDigit(t[i])
    THEN LET y == (t[1] - 48) * 1000 + (t[2] - 48) * 100 + (t[3] - 48) * 10 + (t[4] - 48)
             m == (t[6] - 48) * 10 + (t[7] - 48)
             d == (t[9] - 48) * 10 + (t[10] - 48)
         IN IF y >= 1 /\ m \in 1..12 /\ d >= 1 /\ d <= DaysIn(y, m)
            THEN [ok |-> TRUE, date |-> [year |-> y, month |-> m, day |-> d]]
            ELSE [ok |-> FALSE]
    ELSE [ok |-> FALSE]

\* ------------------------------------------------------------------- store
\* A stored row: [id, type, category, amount, currency, date, notes] with
\* date the ISO text and notes possibly NaN (NULL).
Ids(rows) == {r.id : r \in rows}

MaxOf(S) == IF S = {} THEN 0 ELSE CHOOSE x \in S : \A y \in S : y <= x

\* INSERT without an id under INTEGER PRIMARY KEY AUTOINCREMENT: one more than
\* the largest rowid ever used (sqlite_sequence) or present.
NextId(rows, s) == MaxOf(Ids(rows) \cup {s}) + 1

add_transaction(rows, s, tx_type, category, amount, currency, tx_date, notes) ==
    LET id == NextId(rows, s)
    IN [db  |-> rows \cup {[id |-> id, type |-> tx_type, category |-> category,
                            amount |-> amount, currency |-> currency,
                            date |-> tx_date, notes |-> notes]},
        seq |-> id]

\* mutant: ORDER BY date DESC, id ASC
RowBeforeIdAscending(a, b) ==
    \/ a.date # b.date /\ TextLess(b.date, a.date)
    \/ a.date = b.date /\ a.id < b.id

\* ORDER BY date DESC, id DESC over the TEXT date column
RowBefore(a, b) ==
    \/ a.date # b.date /\ TextLess(b.date, a.date)
    \/ a.date = b.date /\ a.id > b.id

RECURSIVE OrderBy(_)
OrderBy(rows) ==
    IF rows = {} THEN << >>
    ELSE LET first == CHOOSE r \in rows : \A o \in rows \ {r} : RowBefore(r, o)
         IN <<first>> \o OrderBy(rows \ {first})

\* parse_dates=["date"], then .dt.date: the stored text read as a date
LoadRow(r) == [r EXCEPT !.date = ParseIso(r.date).date]

load_transactions(rows) ==
    LET s == OrderBy(rows) IN [i \in 1..Len(s) |-> LoadRow(s[i])]

\* -------------------------------------------------------------- aggregation
\* year=None / month=None; `if year:` treats None and 0 alike, and no date
\* has year 0 or month 0
None == 0

Year(r) == r.date.year
Month(r) == r.date.month

\* mutant: the month filter nested under the year filter
FilterPeriodNested(frame, year, month) ==
    IF year # None
    THEN LET byYear == SelectSeq(frame, LAMBDA r : Year(r) = year)
         IN IF month # None
            THEN SelectSeq(byYear, LAMBDA r : Month(r) = month) ELSE byYear
    ELSE frame

\* tmp[tmp['date'].dt.year == year], tmp[tmp['date'].dt.month == month]
FilterPeriod(frame, year, month) ==
    LET byYear  == IF year # None
                   THEN SelectSeq(frame, LAMBDA r : Year(r) = year) ELSE frame
    IN IF month # None
       THEN SelectSeq(byYear, LAMBDA r : Month(r) = month) ELSE byYear

OfType(frame, tx_type) == SelectSeq(frame, LAMBDA r : r.type = tx_type)

\* Series.sum()
RECURSIVE SumAmount(_)
SumAmount(frame) ==
    IF frame = << >> THEN 0 ELSE Head(frame).amount + SumAmount(Tail(frame))

SummaryFrame(income, expense, balance) ==
    << [metric |-> "Total Income",  value |-> income],
       [metric |-> "Total Expense", value |-> expense],
       [metric |-> "Balance",       value |-> balance] >>

\* mutant: the balance as the sum of the two totals
monthly_summary_added(frame, year, month) ==
    IF frame = << >> THEN << >>
    ELSE LET tmp     == FilterPeriod(frame, year, month)
             income  == SumAmount(OfType(tmp, Income))
             expense == SumAmount(OfType(tmp, Expense))
         IN SummaryFrame(income, expense, income + expense)

\* mutant: the emptiness test made after the filter
monthly_summary_late_test(frame, year, month) ==
    LET tmp     == FilterPeriod(frame, year, month)
        income  == SumAmount(OfType(tmp, Income))
        expense == SumAmount(OfType(tmp, Expense))
    IN IF tmp = << >> THEN << >>
       ELSE SummaryFrame(income, expense, income - expense)

monthly_summary(frame, year, month) ==
    IF frame = << >> THEN << >>
    ELSE LET tmp     == FilterPeriod(frame, year, month)
             income  == SumAmount(OfType(tmp, Income))
             expense == SumAmount(OfType(tmp, Expense))
         IN SummaryFrame(income, expense, income - expense)

\* groupby('category')['amount'].sum().reset_index(): one row per category
GroupByCategory(frame) ==
    { [category |-> c,
       amount   |-> SumAmount(SelectSeq(frame, LAMBDA r : r.category = c))]
      : c \in {frame[i].category : i \in DOMAIN frame} }

\* sort_values('amount', ascending=False) with the default kind='quicksort',
\* which is not stable: every arrangement of the groups with the amounts
\* non-increasing is a possible result.
SortValuesDesc(groups) ==
    LET n == Cardinality(groups)
    IN { s \in [1..n -> groups] :
           /\ \A i, j \in 1..n : i # j => s[i] # s[j]
           /\ \A i \in 1..(n - 1) : s[i].amount >= s[i + 1].amount }

\* The frames category_breakdown can return
category_breakdown(frame, year, month, tx_type) ==
    IF frame = << >> THEN { << >> }
    ELSE SortValuesDesc(GroupByCategory(OfType(FilterPeriod(frame, year, month), tx_type)))

\* --------------------------------------------------------------- dashboard
CurrentYear == 2024

\* summary_df[summary_df['metric'] == metric]['value'].values[0]
MetricValue(summary, metric) ==
    (CHOOSE r \in {summary[i] : i \in DOMAIN summary} : r.metric = metric).value

\* the years offered by the Year selectbox
YearOptions(frame) ==
    IF frame = << >> THEN {CurrentYear} ELSE {Year(frame[i]) : i \in DOMAIN frame}

MonthOptions == 1..12

\* One run of the script over the store `rows` with the filter widgets at
\* (year, month): load the frame, convert the filters, compute the summary
\* and the expense breakdown. A year no longer offered falls back to "All".
\* Over an unchanged store the load returns the frame of the run before
\* (FrameIsLoaded), which is used as it stands.
ScriptRun(rows, year, month) ==
    LET frame == IF rows = db THEN df ELSE load_transactions(rows)
        y     == IF year \in YearOptions(frame) THEN year ELSE None
    IN /\ df' = frame
       /\ sel_year' = y
       /\ sel_month' = month
       /\ summary_df' = monthly_summary(frame, y, month)
       /\ cat_df' \in category_breakdown(frame, y, month, Expense)

\* no report: pdf_bytes exists only in the run of the button's click
NoPdf == << >>

\* The user picks a year and a month in the dashboard filters
SelectFilter(year, month) ==
    /\ year \in YearOptions(df) \cup {None}
    /\ month \in MonthOptions \cup {None}
    /\ ScriptRun(db, year, month)
    /\ flash' = "none"
    /\ pdf' = NoPdf
    /\ UNCHANGED <<db, seq, uploaded, processed, sheet>>

\* ------------------------------------------------------------ single insert
Jan05 == [year |-> 2024, month |-> 1, day |-> 5]
Jan10 == [year |-> 2024, month |-> 1, day |-> 10]
Feb01 == [year |-> 2024, month |-> 2, day |-> 1]
Dec31 == [year |-> 2023, month |-> 12, day |-> 31]

FormInput(tx_type, category, amount, tx_date, notes) ==
    [tx_type |-> tx_type, category |-> category, amount |-> amount,
     currency |-> PKR, tx_date |-> tx_date, notes |-> notes]

\* transaction_form: the submit handler. amount comes from a number_input
\* with min_value=0.0; a submission with amount 0 is refused.
SubmitForm(f) ==
    IF f.amount > 0
    THEN LET cat == IF Strip(f.category) # Empty THEN Strip(f.category) ELSE General
             new == add_transaction(db, seq, f.tx_type, cat, f.amount, f.currency,
                                    IsoFormat(f.tx_date), f.notes)
         IN /\ db' = new.db
            /\ seq' = new.seq
            /\ flash' = "added"
            /\ ScriptRun(new.db, sel_year, sel_month)
            /\ pdf' = NoPdf
            /\ UNCHANGED <<uploaded, processed, sheet>>
    ELSE /\ flash' = "invalid_amount"
         /\ ScriptRun(db, sel_year, sel_month)
         /\ pdf' = NoPdf
         /\ UNCHANGED <<db, seq, uploaded, processed, sheet>>

\* ------------------------------------------------------------ upload: cells
\* A decoded table (the DataFrame pd.read_csv / pd.read_excel returns) is
\* [cols, rows]: the set of column names and the rows, each a function from
\* the columns to cells. A cell is a number, a text, a date or missing.
Num(n)  == [t |-> "num", n |-> n]
Str(s)  == [t |-> "str", s |-> s]
Date(d) == [t |-> "date", d |-> d]
NaNCell == [t |-> "nan"]

RECURSIVE DigitsValue(_, _)
DigitsValue(s, acc) ==
    IF s = << >> THEN acc ELSE DigitsValue(Tail(s), acc * 10 + (Head(s) - 48))

IsDigits(s) == s # << >> /\ \A i \in DOMAIN s : IsDigit(s[i])

\* mutant: pd.to_numeric(errors='coerce'), a text that is no number read as
\* missing
ToNumericCoerce(c) ==
    IF c.t \in {"num", "nan"} THEN [ok |-> TRUE, cell |-> c]
    ELSE IF c.t = "str" /\ IsDigits(Strip(c.s))
    THEN [ok |-> TRUE, cell |-> Num(DigitsValue(Strip(c.s), 0))]
    ELSE [ok |-> TRUE, cell |-> NaNCell]

\* pd.to_numeric on one cell: numbers and missing values pass, a text must
\* read as a (signed) integer, a date is no number. [ok, cell]
ToNumeric(c) ==
    IF c.t \in {"num", "nan"} THEN [ok |-> TRUE, cell |-> c]
    ELSE IF c.t = "str"
    THEN LET s   == Strip(c.s)
             neg == s # << >> /\ Head(s) = 45
             digits == IF neg THEN Tail(s) ELSE s
         IN IF IsDigits(digits)
            THEN [ok |-> TRUE,
                  cell |-> Num(IF neg THEN 0 - DigitsValue(digits, 0)
                                      ELSE DigitsValue(digits, 0))]
            ELSE [ok |-> FALSE]
    ELSE [ok |-> FALSE]

\* pd.to_datetime(...).dt.date on one cell: a date passes, a missing value
\* becomes NaT, a text must read as a calendar date, and a number is taken
\* as nanoseconds since the epoch. [ok, cell]
ToDate(c) ==
    IF c.t \in {"date", "nan"} THEN [ok |-> TRUE, cell |-> c]
    ELSE IF c.t = "str"
    THEN LET p == ParseIso(Strip(c.s))
         IN IF p.ok THEN [ok |-> TRUE, cell |-> Date(p.date)] ELSE [ok |-> FALSE]
    ELSE [ok |-> TRUE, cell |-> Date([year |-> 1970, month |-> 1, day |-> 1])]

\* -------------------------------------------------- process_uploaded_file
required_cols == <<"type", "category", "amount", "currency", "date">>

Message(head, list) == [head |-> head, list |-> list]

\* (None, message)
Rejected(head, list) == [df |-> << >>, message |-> Message(head, list)]

\* mutant: sorted(set(required_cols) - set(df.columns)), the names in
\* alphabetical order
missing_cols_sorted(cols) ==
    SelectSeq(<<"amount", "category", "currency", "date", "type">>,
              LAMBDA col : col \notin cols)

\* [col for col in required_cols if col not in df.columns], later joined
\* with ', ': the names in required_cols order
missing_cols(cols) == SelectSeq(required_cols, LAMBDA col : col \notin cols)

\* A file is [ext, readable, cols, rows]. The result is [df, message] with
\* df the one-element sequence holding the processed table, or << >> (None).
process_uploaded_file(file) ==
    IF file.ext \notin {"csv", "xlsx"}
    THEN Rejected("Unsupported file format. Please upload CSV or Excel file.", << >>)
    ELSE IF ~file.readable
    THEN Rejected("Error processing file", << >>)
    ELSE IF missing_cols(file.cols) # << >>
    THEN Rejected("Missing required columns", missing_cols(file.cols))
    ELSE IF \E i \in DOMAIN file.rows :
                ~ToNumeric(file.rows[i]["amount"]).ok \/ ~ToDate(file.rows[i]["date"]).ok
    THEN Rejected("Invalid data types in amount or date columns", << >>)
    ELSE [df |-> << [cols |-> file.cols,
                     rows |-> [i \in DOMAIN file.rows |->
                                 [file.rows[i] EXCEPT
                                    !["amount"] = ToNumeric(@).cell,
                                    !["date"]   = ToDate(@).cell]]] >>,
          message |-> Message("File processed successfully!", << >>)]

\* -------------------------------------------------- bulk_insert_transactions
TableColumns == {"id", "type", "category", "amount", "currency", "date", "notes"}
NotNullColumns == {"type", "category", "amount", "currency", "date"}

\* The value SQLite stores for a cell: a date as its ISO text, a missing
\* value as NULL
SqlText(c) == IF c.t = "str" THEN c.s ELSE IF c.t = "date" THEN IsoFormat(c.d) ELSE NaN

\* mutant: INSERT OR REPLACE, a row of an id already stored takes its place
InsertOrReplaceRow(rows, s, cols, row) ==
    LET hasId == "id" \in cols /\ row["id"].t = "num"
        id    == IF hasId THEN row["id"].n ELSE NextId(rows, s)
    IN IF \E c \in NotNullColumns : row[c].t = "nan"
       THEN [ok |-> FALSE, db |-> rows, seq |-> s]
       ELSE [ok |-> TRUE,
             db |-> {r \in rows : r.id # id}
                    \cup {[id |-> id,
                           type |-> SqlText(row["type"]),
                           category |-> SqlText(row["category"]),
                           amount |-> row["amount"].n,
                           currency |-> SqlText(row["currency"]),
                           date |-> SqlText(row["date"]),
                           notes |-> IF "notes" \in cols
                                     THEN SqlText(row["notes"]) ELSE NaN]},
             seq |-> MaxOf({s, id})]

\* INSERT of one frame row: [ok, db, seq]. A NULL in a NOT NULL column or an
\* id already present violates a constraint.
InsertRow(rows, s, cols, row) ==
    LET hasId == "id" \in cols /\ row["id"].t = "num"
        id    == IF hasId THEN row["id"].n ELSE NextId(rows, s)
    IN IF \/ \E c \in NotNullColumns : row[c].t = "nan"
          \/ id \in Ids(rows)
       THEN [ok |-> FALSE, db |-> rows, seq |-> s]
       ELSE [ok |-> TRUE,
             db |-> rows \cup {[id |-> id,
                                type |-> SqlText(row["type"]),
                                category |-> SqlText(row["category"]),
                                amount |-> row["amount"].n,
                                currency |-> SqlText(row["currency"]),
                                date |-> SqlText(row["date"]),
                                notes |-> IF "notes" \in cols
                                          THEN SqlText(row["notes"]) ELSE NaN]},
             seq |-> MaxOf({s, id})]

RECURSIVE InsertRows(_, _, _, _)
InsertRows(rows, s, cols, todo) ==
    IF todo = << >> THEN [ok |-> TRUE, db |-> rows, seq |-> s]
    ELSE LET one == InsertRow(rows, s, cols, Head(todo))
         IN IF one.ok THEN InsertRows(one.db, one.seq, cols, Tail(todo)) ELSE one

\* DataFrame.to_sql('transactions', if_exists='append', index=False): all the
\* rows in one transaction, rolled back when a statement fails. [ok, db, seq]
bulk_insert_transactions(rows, s, table) ==
    IF ~(table.cols \subseteq TableColumns)
    THEN [ok |-> FALSE, db |-> rows, seq |-> s]
    ELSE LET done == InsertRows(rows, s, table.cols, table.rows)
         IN IF done.ok THEN done ELSE [ok |-> FALSE, db |-> rows, seq |-> s]

\* ----------------------------------------------------------------- sidebar
NoFile == [ext |-> "none", readable |-> FALSE, cols |-> {}, rows |-> << >>]
NoResult == Rejected("", << >>)

\* The user puts a file into the uploader: the script runs and validates it
UploadFile(file) ==
    /\ uploaded' = file
    /\ processed' = process_uploaded_file(file)
    /\ flash' = "none"
    /\ ScriptRun(db, sel_year, sel_month)
    /\ pdf' = NoPdf
    /\ UNCHANGED <<db, seq, sheet>>

\* "Import Transactions": offered while a validated file is in the uploader.
\* A storage error propagates out of the run, which then stops.
ImportTransactions ==
    /\ processed.df # << >>
    /\ LET done == bulk_insert_transactions(db, seq, processed.df[1])
       IN IF done.ok
          THEN /\ db' = done.db
               /\ seq' = done.seq
               /\ flash' = "imported"
               /\ ScriptRun(done.db, sel_year, sel_month)
               /\ pdf' = NoPdf
               /\ UNCHANGED <<uploaded, processed, sheet>>
          ELSE /\ flash' = "storage_error"
               /\ pdf' = NoPdf
               /\ UNCHANGED <<db, seq, df, uploaded, processed,
                              sel_year, sel_month, summary_df, cat_df, sheet>>

\* ------------------------------------------------------------------ export
FrameColumns == {"id", "type", "category", "amount", "currency", "date", "notes"}

TextCell(s) == IF s = NaN THEN NaNCell ELSE Str(s)

\* A frame row as cells, column by column
FrameCells(r) ==
    [c \in FrameColumns |->
        CASE c = "id"       -> Num(r.id)
          [] c = "type"     -> TextCell(r.type)
          [] c = "category" -> TextCell(r.category)
          [] c = "amount"   -> Num(r.amount)
          [] c = "currency" -> TextCell(r.currency)
          [] c = "date"     -> Date(r.date)
          [] c = "notes"    -> TextCell(r.notes)]

NoSheet == [transactions |-> [cols |-> {}, rows |-> << >>], summary |-> << >>]

\* to_excel_bytes: the workbook with the 'transactions' sheet (the frame as
\* written by DataFrame.to_excel, a missing value as an empty cell) and the
\* 'summary' sheet (the all-time summary). writer.save() (line 216) exists
\* only in pandas before 2.0; the model takes a pandas that has it.
to_excel_bytes(frame) ==
    [transactions |-> [cols |-> FrameColumns,
                       rows |-> [i \in DOMAIN frame |-> FrameCells(frame[i])]],
     summary |-> monthly_summary(frame, None, None)]

\* pandas' default NA markers among the texts of the model
STR_NA_VALUES == {Empty, NA}

\* pd.read_excel on one cell of the first sheet: an empty cell and a text
\* that is an NA marker are read as missing
ReadCell(c) == IF c.t = "str" /\ c.s \in STR_NA_VALUES THEN NaNCell ELSE c

\* The exported workbook as an uploaded .xlsx file: pd.read_excel decodes
\* its first sheet
read_excel(book) ==
    [ext |-> "xlsx", readable |-> TRUE,
     cols |-> book.transactions.cols,
     rows |-> [i \in DOMAIN book.transactions.rows |->
                 [c \in book.transactions.cols |-> ReadCell(book.transactions.rows[i][c])]]]

\* "Export All to Excel": nothing is exported from an empty frame
ExportExcel ==
    /\ IF df = << >>
       THEN /\ flash' = "nothing_to_export"
            /\ UNCHANGED sheet
       ELSE /\ flash' = "exported"
            /\ sheet' = to_excel_bytes(df)
    /\ ScriptRun(db, sel_year, sel_month)
    /\ pdf' = NoPdf
    /\ UNCHANGED <<db, seq, uploaded, processed>>

\* The user uploads the workbook downloaded last
UploadExported ==
    /\ sheet # NoSheet
    /\ UploadFile(read_excel(sheet))

\* -------------------------------------------------------------- PDF report
month_names ==
    [i \in 0..12 |->
        <<"All", "January", "February", "March", "April", "May", "June", "July",
          "August", "September", "October", "November", "December">>[i + 1]]

\* period_name: "All time", the year, or the month's name and the year; a
\* month without a year leaves "All time"
PeriodName(year, month) ==
    IF year # None /\ month # None THEN month_names[month] \o " " \o ToString(year)
    ELSE IF year # None THEN ToString(year)
    ELSE "All time"

\* f"{x:.2f}" of a whole amount
Fixed2(n) == ToString(n) \o ".00"

\* the rows of the transaction table: df.head(20)
HeadRows == 20
\* the code points of a category that are printed: [:30]
CategoryChars == 30

\* text[:n]
Slice(text, n) == SubSeq(text, 1, IF n < Len(text) THEN n ELSE Len(text))

\* mutant: the last n rows, DataFrame.tail(n)
tail(frame, n) ==
    SubSeq(frame, (IF n < Len(frame) THEN Len(frame) - n ELSE 0) + 1, Len(frame))

\* DataFrame.head(n)
head(frame, n) == SubSeq(frame, 1, IF n < Len(frame) THEN n ELSE Len(frame))

\* str.encode('latin-1') succeeds: no code point above U+00FF
Latin1(text) == \A i \in DOMAIN text : text[i] <= 255

\* One line of the summary block; the balance is green when it is not
\* negative and red when it is, every other metric is black
SummaryLine(row, currency) ==
    [metric   |-> row.metric,
     value    |-> Fixed2(row.value),
     currency |-> currency,
     color    |-> IF row.metric = "Balance"
                  THEN IF row.value >= 0 THEN <<0, 128, 0>> ELSE <<255, 0, 0>>
                  ELSE <<0, 0, 0>>]

\* add_category_breakdown: a placeholder, or one line per category row
CategoryBlock(category_df, currency) ==
    IF category_df = << >>
    THEN [placeholder |-> "No category data available.", lines |-> << >>]
    ELSE [placeholder |-> "",
          lines |-> [i \in DOMAIN category_df |->
                       [category |-> category_df[i].category,
                        amount   |-> Fixed2(category_df[i].amount),
                        currency |-> currency]]]

\* One row of the transaction table: str(date), type, str(category)[:30]
\* and the amount with two decimals
TransactionCells(r) ==
    [date     |-> IsoFormat(r.date),
     type     |-> r.type,
     category |-> Slice(r.category, CategoryChars),
     amount   |-> Fixed2(r.amount)]

\* "Recent Transactions": a placeholder for an empty frame, else the header
\* and the rows of df.head(20)
TransactionTable(frame, currency) ==
    IF frame = << >>
    THEN [placeholder |-> "No transactions to show.",
          header |-> << >>, unit |-> << >>, rows |-> << >>]
    ELSE LET shown == head(frame, HeadRows)
         IN [placeholder |-> "",
             header |-> <<"Date", "Type", "Category", "Amount">>,
             unit   |-> currency,
             rows   |-> [i \in DOMAIN shown |-> TransactionCells(shown[i])]]

\* The document, or the UnicodeEncodeError of .encode('latin-1') (PyFPDF's
\* output(dest='S') is a str) when a printed text holds a code point that
\* latin-1 lacks.
create_pdf_report(frame, summary, categories, period_name, currency) ==
    LET block == CategoryBlock(categories, currency)
        table == TransactionTable(frame, currency)
        texts == { block.lines[i].category : i \in DOMAIN block.lines }
                 \cup { table.rows[i].type : i \in DOMAIN table.rows }
                 \cup { table.rows[i].category : i \in DOMAIN table.rows }
                 \cup (IF summary = << >> /\ categories = << >> /\ frame = << >>
                       THEN {} ELSE {currency})
    IN IF \A t \in texts : Latin1(t)
       THEN [ok           |-> TRUE,
             title        |-> "Budget Report - " \o period_name,
             summary      |-> [i \in DOMAIN summary |-> SummaryLine(summary[i], currency)],
             categories   |-> block,
             transactions |-> table]
       ELSE [ok |-> FALSE]

\* "Generate PDF Report": the frame cut to the selected period; a warning
\* when nothing is left, else the report of the cut frame with its summary
\* and its expense categories, offered for download
GeneratePdf ==
    LET filtered == FilterPeriod(df, sel_year, sel_month)
    IN /\ IF filtered = << >>
          THEN /\ flash' = "no_data"
               /\ pdf' = NoPdf
          ELSE \E categories \in category_breakdown(filtered, None, None, Expense) :
                  LET report == create_pdf_report(filtered,
                                    monthly_summary(filtered, None, None), categories,
                                    PeriodName(sel_year, sel_month), PKR)
                  IN IF report.ok
                     THEN /\ flash' = "pdf_ready"
                          /\ pdf' = <<report>>
                     ELSE /\ flash' = "exception"
                          /\ pdf' = NoPdf
       /\ ScriptRun(db, sel_year, sel_month)
       /\ UNCHANGED <<db, seq, uploaded, processed, sheet>>

\* create_pdf_report applied to the whole frame, the empty one included,
\* with the summary and the categories of the dashboard
RenderReport ==
    LET report == create_pdf_report(df, summary_df, cat_df,
                                    PeriodName(sel_year, sel_month), PKR)
    IN /\ IF report.ok
          THEN /\ flash' = "rendered"
               /\ pdf' = <<report>>
          ELSE /\ flash' = "exception"
               /\ pdf' = NoPdf
       /\ UNCHANGED <<db, seq, df, uploaded, processed,
                      sel_year, sel_month, summary_df, cat_df, sheet>>

\* ------------------------------------------------------------------ inputs
\* the submissions of the add-transaction form tried in Spec
FormInputs ==
    { FormInput(Income,  Salary,     50000, Jan05, Empty),
      FormInput(Expense, Rent,       15000, Jan10, Lunch),
      FormInput(Expense, Groceries,   8000, Feb01, Empty),
      FormInput(Expense, Blank,      15000, Dec31, Empty),
      FormInput(Income,  Rent,           0, Jan10, Empty) }

TableRow(tx_type, category, amount, tx_date) ==
    [c \in {"type", "category", "amount", "currency", "date"} |->
        CASE c = "type"     -> tx_type
          [] c = "category" -> category
          [] c = "amount"   -> amount
          [] c = "currency" -> Str(PKR)
          [] c = "date"     -> tx_date]

WithColumn(row, col, cell) ==
    [c \in (DOMAIN row) \cup {col} |-> IF c = col THEN cell ELSE row[c]]

Csv(rows) ==
    [ext |-> "csv", readable |-> TRUE,
     cols |-> IF rows = << >> THEN {"type", "category", "amount", "currency", "date"}
              ELSE DOMAIN rows[1],
     rows |-> rows]

\* the files uploaded in Spec: a plain one, one with rows no form would
\* submit, one carrying its own id column, one with an empty category cell,
\* one with a column the table does not have
StoreFiles ==
    { Csv(<< TableRow(Str(Income), Str(Salary), Num(50000), Str(IsoFormat(Jan05))) >>),
      Csv(<< WithColumn(TableRow(Str(Transfer), Str(Blank), Num(0 - 8000),
                                 Str(IsoFormat(Dec31))), "notes", Str(Lunch)) >>),
      Csv(<< WithColumn(TableRow(Str(Expense), Str(Rent), Num(15000),
                                 Str(IsoFormat(Jan10))), "id", Num(1)),
             WithColumn(TableRow(Str(Expense), Str(Groceries), Num(15000),
                                 Str(IsoFormat(Feb01))), "id", Num(5)) >>),
      Csv(<< TableRow(Str(Expense), NaNCell, Num(8000), Str(IsoFormat(Feb01))) >>),
      Csv(<< WithColumn(TableRow(Str(Expense), Str(Rent), Num(8000),
                                 Str(IsoFormat(Jan10))), "memo", Str(Lunch)) >>) }

\* --------------------------------------------------------------------- Spec
\* the first run of the script over the store `rows`
FirstRun(rows, s) ==
    LET frame == load_transactions(rows)
    IN /\ db = rows
       /\ seq = s
       /\ df = frame
       /\ flash = "none"
       /\ uploaded = NoFile
       /\ processed = NoResult
       /\ sel_year = None
       /\ sel_month = None
       /\ summary_df = monthly_summary(frame, None, None)
       /\ cat_df \in category_breakdown(frame, None, None, Expense)
       /\ sheet = NoSheet
       /\ pdf = NoPdf

\* init_db on a new database file
Init == FirstRun({}, 0)

Submit == \E f \in FormInputs : Cardinality(db) < MaxRows /\ SubmitForm(f)

Upload == \E file \in StoreFiles : UploadFile(file)

Import == ImportTransactions /\ Cardinality(db') <= MaxRows

\* every run leaves the frame equal to what the store returns
FrameIsLoaded == df = load_transactions(db)

Next == Submit \/ Upload \/ Import

Spec == Init /\ [][Next]_vars

\* ------------------------------------------------------------ SpecDashboard
\* The aggregation helpers over every store of at most MaxFrameRows rows
\* drawn from DashRows, and over the three-transaction scenario.
DashRows ==
    { FormInput(Expense, c, a, d, Empty) :
        c \in {Rent, Groceries}, a \in {8000, 15000}, d \in {Jan10, Feb01, Dec31} }
    \cup { FormInput(Income, Salary, a, d, Empty) :
             a \in {8000, 15000}, d \in {Jan10, Feb01, Dec31} }
    \cup { FormInput(Transfer, Rent, 0 - 8000, Jan10, Empty) }

Scenario ==
    << FormInput(Income,  Salary,    50000, Jan05, Empty),
       FormInput(Expense, Rent,      15000, Jan10, Empty),
       FormInput(Expense, Groceries,  8000, Feb01, Empty) >>

SeqsUpTo(S, n) == UNION { [1..k -> S] : k \in 0..n }

\* the store after the rows of s were inserted in order: [db, seq]
RECURSIVE StoreOf(_)
StoreOf(s) ==
    IF s = << >> THEN [db |-> {}, seq |-> 0]
    ELSE LET before == StoreOf(SubSeq(s, 1, Len(s) - 1))
             f      == s[Len(s)]
         IN add_transaction(before.db, before.seq, f.tx_type, f.category, f.amount,
                            f.currency, IsoFormat(f.tx_date), f.notes)

InitDashboard ==
    \E s \in SeqsUpTo(DashRows, MaxFrameRows) \cup {Scenario} :
        FirstRun(StoreOf(s).db, StoreOf(s).seq)

\* the months tried: "All", the months that hold data and one that holds none
FilterMonths == {None, 1, 2, 3, 12}

Filter ==
    \E year \in YearOptions(df) \cup {None}, month \in FilterMonths :
        SelectFilter(year, month)

NextDashboard == Filter

SpecDashboard == InitDashboard /\ [][NextDashboard]_vars

\* ------------------------------------------------------------ SpecValidator
\* process_uploaded_file over tables with any subset of the columns below
\* and at most MaxTableRows rows.
UploadColumns == {"type", "category", "amount", "currency", "date", "memo"}

AmountCells == {Num(8000), Str(<<56, 48, 48, 48>>), Str(Abc)}

DateCells == {Str(IsoFormat(Jan10)), Str(<<50, 48, 50, 52, 45, 49, 51, 45, 52, 48>>)}

UploadRows(cols) ==
    { [c \in cols |->
         CASE c = "amount" -> a
           [] c = "date"   -> d
           [] c = "type"   -> Str(Expense)
           [] c = "currency" -> Str(PKR)
           [] OTHER        -> Str(Rent)]
      : a \in (IF "amount" \in cols THEN AmountCells ELSE {NaNCell}),
        d \in (IF "date" \in cols THEN DateCells ELSE {NaNCell}) }

ValidatorFiles ==
    UNION { { [ext |-> "xlsx", readable |-> TRUE, cols |-> cols, rows |-> rows] :
                rows \in SeqsUpTo(UploadRows(cols), MaxTableRows) }
            : cols \in SUBSET UploadColumns }
    \cup { [ext |-> "csv", readable |-> FALSE, cols |-> {}, rows |-> << >>] }

UploadAny == \E file \in ValidatorFiles : UploadFile(file)

NextValidator == UploadAny

SpecValidator == Init /\ [][NextValidator]_vars

\* ------------------------------------------------------------ SpecRoundTrip
\* Export and re-upload over every store of at most MaxTripRows rows drawn
\* from TripRows.
TripRows ==
    { FormInput(Expense, c, 8000, d, n) :
        c \in {Rent, NA}, d \in {Jan10, Dec31}, n \in {Empty, Lunch, NaN} }

InitRoundTrip ==
    \E s \in SeqsUpTo(TripRows, MaxTripRows) : FirstRun(StoreOf(s).db, StoreOf(s).seq)

NextRoundTrip == ExportExcel \/ UploadExported

SpecRoundTrip == InitRoundTrip /\ [][NextRoundTrip]_vars

\* ------------------------------------------------------------------ SpecPdf
\* The report over stores of 0..MaxPdfRows rows, under every filter.
\* Row i of pattern p: the types alternate, the categories cycle through a
\* short one, another short one and one longer than the printed width, the
\* dates cycle through four days so that the load order is not the insertion
\* order, and the amounts tell the rows apart.  Pattern 3 has one income row
\* whose category is not latin-1; it is loaded last.
LongCategory == Groceries \o <<32>> \o Groceries \o <<32>> \o Groceries \o <<32>> \o Groceries

PdfRow(i, p) ==
    FormInput(IF (i + p) % 2 = 0 THEN Expense ELSE Income,
              IF p = 3 /\ i = 4 THEN Kiraya
              ELSE IF i % 3 = 0 THEN LongCategory
              ELSE IF i % 3 = 1 THEN Rent ELSE Groceries,
              100 * i + p,
              IF i % 4 = 0 THEN Dec31
              ELSE IF i % 4 = 1 THEN Jan05
              ELSE IF i % 4 = 2 THEN Jan10 ELSE Feb01,
              Empty)

PdfPatterns == 1..3

InitPdf ==
    \E n \in 0..MaxPdfRows, p \in PdfPatterns :
        LET store == StoreOf([i \in 1..n |-> PdfRow(i, p)])
        IN FirstRun(store.db, store.seq)

NextPdf == Filter \/ GeneratePdf \/ RenderReport

SpecPdf == InitPdf /\ [][NextPdf]_vars

\* =================================================================== claims
\* a transaction of the frame lies in the selected period: every filter
\* component that is set matches its date
InPeriod(r) ==
    /\ sel_year = None \/ r.date.year = sel_year
    /\ sel_month = None \/ r.date.month = sel_month

RECURSIVE SumAt(_, _)
SumAt(frame, I) ==
    IF I = {} THEN 0
    ELSE LET i == CHOOSE x \in I : TRUE IN frame[i].amount + SumAt(frame, I \ {i})

\* the sum of the amounts of the transactions of the frame of one type that
\* lie in the selected period
PeriodTotal(tx_type) ==
    SumAt(df, {i \in DOMAIN df : df[i].type = tx_type /\ InPeriod(df[i])})

\* C1: whenever the summary reports values, for any store and any
\* (year, month) filter, its Balance is its Total Income minus its Total
\* Expense.
C1_BalanceIsIncomeMinusExpense ==
    summary_df # << >> =>
        MetricValue(summary_df, "Balance")
            = MetricValue(summary_df, "Total Income")
              - MetricValue(summary_df, "Total Expense")

\* C1 witness: a filtered summary whose expenses exceed a positive income
C1_Witness ==
    /\ summary_df # << >>
    /\ sel_year # None /\ sel_month # None
    /\ MetricValue(summary_df, "Total Income") > 0
    /\ MetricValue(summary_df, "Total Expense") > MetricValue(summary_df, "Total Income")
    /\ MetricValue(summary_df, "Balance") < 0

\* C2 (as claimed): whenever no transaction lies in the selected period (the
\* set is empty, or becomes empty after the filter), the summary is the three
\* metrics Total Income = 0, Total Expense = 0, Balance = 0.
C2_EmptyYieldsZeros ==
    (\A i \in DOMAIN df : ~InPeriod(df[i])) => summary_df = SummaryFrame(0, 0, 0)

\* C2 (amended): a non-empty set that becomes empty after the filter yields
\* the three metrics, all zero; an empty set yields a summary without rows.
C2_EmptyAfterFilterYieldsZeros ==
    /\ (df # << >> /\ \A i \in DOMAIN df : ~InPeriod(df[i]))
          => summary_df = SummaryFrame(0, 0, 0)
    /\ df = << >> => summary_df = << >>

\* C2 witness: a store with transactions, none of them in the selected month
C2_Witness ==
    /\ df # << >>
    /\ sel_month # None
    /\ \A i \in DOMAIN df : ~InPeriod(df[i])
    /\ summary_df = SummaryFrame(0, 0, 0)

\* C3: whenever the summary reports values, Total Income is the sum of the
\* amounts of exactly the income transactions whose date matches every filter
\* component that is set, Total Expense the same for the expense
\* transactions; and the scenario under (2024, 1) gives 50000 / 15000 / 35000.
C3_TotalsAreThePeriodSums ==
    /\ summary_df # << >> =>
          /\ MetricValue(summary_df, "Total Income") = PeriodTotal(Income)
          /\ MetricValue(summary_df, "Total Expense") = PeriodTotal(Expense)
    /\ (db = StoreOf(Scenario).db /\ sel_year = 2024 /\ sel_month = 1)
          => summary_df = SummaryFrame(50000, 15000, 35000)

\* C3 witness: the scenario filtered to January 2024
C3_Witness ==
    /\ db = StoreOf(Scenario).db
    /\ sel_year = 2024 /\ sel_month = 1
    /\ summary_df = SummaryFrame(50000, 15000, 35000)

\* C3 witness of the independence: a month filter without a year filter that
\* leaves some transactions out
C3_MonthOnlyWitness ==
    /\ sel_year = None /\ sel_month # None
    /\ \E i \in DOMAIN df : ~InPeriod(df[i])
    /\ \E i \in DOMAIN df : InPeriod(df[i]) /\ df[i].type = Income

\* C4 (as claimed): the breakdown rows are in descending order of amount,
\* and rows of equal amount in ascending order of category name.
C4_SortedWithLexicographicTies ==
    \A i, j \in DOMAIN cat_df :
        i < j => \/ cat_df[i].amount > cat_df[j].amount
                 \/ /\ cat_df[i].amount = cat_df[j].amount
                    /\ TextLess(cat_df[i].category, cat_df[j].category)

\* C5 (as claimed): every stored transaction has amount >= 0, type income or
\* expense, and a category that is not blank.
C5_StoredRowsAreValid ==
    \A r \in db :
        /\ r.amount >= 0
        /\ r.type \in {Income, Expense}
        /\ Strip(r.category) # Empty

\* C6: stored ids are pairwise distinct, and every step keeps each stored
\* transaction, with its id and field values.
IdsDistinct == \A a, b \in db : a.id = b.id => a = b

C6_AppendOnlyUniqueIds == [](IdsDistinct) /\ [][\A r \in db : r \in db']_vars

\* C6 witness: an import whose rows carry their own ids was refused over an
\* id already stored, and one was accepted into a store that held a row
C6_Witness ==
    /\ flash = "storage_error"
    /\ "id" \in uploaded.cols
    /\ \E r \in db : r.id = 1
    /\ \E r \in db : r.id > Cardinality(db)

\* a calendar date is later than another
DateAfter(a, b) ==
    \/ a.year > b.year
    \/ a.year = b.year /\ a.month > b.month
    \/ a.year = b.year /\ a.month = b.month /\ a.day > b.day

\* C7: the loaded frame holds every stored transaction exactly once, ordered
\* by date descending and, among equal dates, by id descending.
C7_AllIsOrderedAndComplete ==
    /\ Len(df) = Cardinality(db)
    /\ \A r \in db : \E i \in DOMAIN df :
          /\ df[i].id = r.id
          /\ [df[i] EXCEPT !.date = IsoFormat(@)] = r
    /\ \A i, j \in DOMAIN df :
          i < j => \/ DateAfter(df[i].date, df[j].date)
                   \/ df[i].date = df[j].date /\ df[i].id > df[j].id

\* C7 witness: three rows, two of them of one date, and a row inserted later
\* that lies earlier in time than one inserted before it
C7_Witness ==
    /\ Len(df) >= 3
    /\ \E i, j \in DOMAIN df : i < j /\ df[i].date = df[j].date
    /\ \E i, j \in DOMAIN df : i < j /\ df[i].id < df[j].id

Position(col) == CHOOSE k \in DOMAIN required_cols : required_cols[k] = col

\* C8: a readable table that lacks a required column yields no records and
\* the missing-columns message, which lists exactly the required columns the
\* table lacks, each once, in the order type, category, amount, currency,
\* date; without amount and currency it lists "amount, currency".
C8_MissingColumnsNamedInOrder ==
    (uploaded.readable /\ \E k \in DOMAIN required_cols : required_cols[k] \notin uploaded.cols)
    => /\ processed.df = << >>
       /\ processed.message.head = "Missing required columns"
       /\ LET list == processed.message.list
          IN /\ \A c \in UploadColumns \cup {"type", "category", "amount", "currency", "date"} :
                    (\E k \in DOMAIN list : list[k] = c)
                    <=> (c \in {"type", "category", "amount", "currency", "date"}
                         /\ c \notin uploaded.cols)
             /\ \A i, j \in DOMAIN list :
                    i < j => Position(list[i]) < Position(list[j])
             /\ ({"type", "category", "amount", "currency", "date"} \ uploaded.cols
                    = {"amount", "currency"})
                => list = <<"amount", "currency">>

\* C8 witness: a table with another column and without amount and currency
C8_Witness ==
    /\ uploaded.cols = {"type", "category", "date", "memo"}
    /\ processed.df = << >>
    /\ processed.message.list = <<"amount", "currency">>

\* an amount cell that is no number / a date cell that is no calendar date
BadAmount(c) == c = Str(Abc)
BadDate(c) == c = Str(<<50, 48, 50, 52, 45, 49, 51, 45, 52, 48>>)

\* C9: a readable table with all required columns that holds an amount that
\* is no number or a date that is no calendar date yields no records and the
\* type-error message; and records never come with anything but the success
\* message.
C9_BadCellsYieldTypeError ==
    /\ (/\ uploaded.readable
        /\ \A k \in DOMAIN required_cols : required_cols[k] \in uploaded.cols
        /\ \E i \in DOMAIN uploaded.rows :
              BadAmount(uploaded.rows[i]["amount"]) \/ BadDate(uploaded.rows[i]["date"]))
       => /\ processed.df = << >>
          /\ processed.message.head = "Invalid data types in amount or date columns"
    /\ processed.df # << >> => processed.message.head = "File processed successfully!"

\* C9 witness: a complete table whose only fault is the amount "abc"
C9_Witness ==
    /\ \A k \in DOMAIN required_cols : required_cols[k] \in uploaded.cols
    /\ uploaded.rows # << >>
    /\ \A i \in DOMAIN uploaded.rows :
          BadAmount(uploaded.rows[i]["amount"]) /\ ~BadDate(uploaded.rows[i]["date"])
    /\ processed.df = << >>
    /\ processed.message.head = "Invalid data types in amount or date columns"

\* C10 (as claimed): once the exported workbook of the frame has been
\* uploaded, the validator accepts it and its records equal the frame's
\* transactions field by field, in the same order.
C10_ExportImportRoundTrip ==
    (sheet # NoSheet /\ sheet = to_excel_bytes(df) /\ uploaded = read_excel(sheet))
    => /\ processed.df # << >>
       /\ Len(processed.df[1].rows) = Len(df)
       /\ \A i \in DOMAIN df : processed.df[1].rows[i] = FrameCells(df[i])

\* the frame the report in hand was made from: the whole frame when
\* create_pdf_report was applied to it, else the transactions of the frame
\* that lie in the selected period, in the frame's order
PdfInput == IF flash = "rendered" THEN df ELSE SelectSeq(df, InPeriod)

\* C11: the transaction table of a report made from n transactions has
\* exactly min(n, 20) rows, and row k prints the k-th transaction of the
\* input (its date, type, amount and the first 30 code points of its
\* category), so the rows are the first min(n, 20) transactions in the
\* input's order, latest date first; for n = 0 the table is the placeholder
\* "No transactions to show." with no rows; and the cap raises nothing: a
\* report fails only over a frame that holds a text latin-1 cannot encode.
C11_TableIsFirstTwentyRows ==
    /\ pdf # NoPdf =>
         LET table == pdf[1].transactions
             rows  == table.rows
             n     == Len(PdfInput)
         IN /\ n = 0 => rows = << >> /\ table.placeholder = "No transactions to show."
            /\ n > 0 => table.placeholder = ""
            /\ Len(rows) = IF n < 20 THEN n ELSE 20
            /\ \A k \in DOMAIN rows :
                  /\ rows[k].date = IsoFormat(PdfInput[k].date)
                  /\ rows[k].type = PdfInput[k].type
                  /\ rows[k].amount = Fixed2(PdfInput[k].amount)
                  /\ Len(rows[k].category) =
                        (IF Len(PdfInput[k].category) < 30
                         THEN Len(PdfInput[k].category) ELSE 30)
                  /\ rows[k].category =
                        SubSeq(PdfInput[k].category, 1, Len(rows[k].category))
            /\ \A k \in 1..(Len(rows) - 1) : ~TextLess(rows[k].date, rows[k + 1].date)
    /\ flash = "exception" => \E i \in DOMAIN df : ~Latin1(df[i].category)

\* the button's report over more than 20 transactions: 20 rows are printed
C11_Witness ==
    /\ flash = "pdf_ready"
    /\ pdf # NoPdf
    /\ Len(PdfInput) > 20
    /\ Len(pdf[1].transactions.rows) = 20

\* the report of the empty frame: the placeholder
C11_EmptyWitness ==
    /\ flash = "rendered"
    /\ pdf # NoPdf
    /\ df = << >>
    /\ pdf[1].transactions.placeholder = "No transactions to show."

\* a transaction beyond the 20th that latin-1 cannot encode is left out and
\* the report is made
C11_OmittedRowWitness ==
    /\ flash = "pdf_ready"
    /\ pdf # NoPdf
    /\ Len(PdfInput) > 20
    /\ ~Latin1(PdfInput[21].category)

\* a category longer than the printed width is cut in the table
C11_CutCategoryWitness ==
    /\ pdf # NoPdf
    /\ \E k \in DOMAIN pdf[1].transactions.rows :
          Len(pdf[1].transactions.rows[k].category) < Len(PdfInput[k].category)

====
